---- MODULE Spec2Model ----
(***************************************************************************)
(* situlogger: SituRotatingFileHandler (day-suffixed log files shared by   *)
(* several processes) and JsonFormatter (one JSON object per log event).   *)
(*                                                                         *)
(* Time is counted in ticks; a local day has DayLen ticks, day d covering  *)
(* the ticks d*DayLen .. (d+1)*DayLen-1, so that the tick d*DayLen is the  *)
(* local midnight that starts day d.  A path "<filename>.<YYYY-MM-DD>" is  *)
(* represented by the number of its day.                                   *)
(***************************************************************************)
EXTENDS Integers, Sequences, FiniteSets, TLC

VARIABLES
    clock,          \* the wall clock, as last read by any process
    files,          \* the directory: day -> [exists, data]
    creations,      \* day -> how many times a file was created for that day
    faults,         \* OS errors other than EEXIST injected so far
    pc,             \* per handler: the statement it is at
    ctx,            \* per handler: the running call ("init", "emit", "none")
    rotate_at,      \* per handler: self._rotate_at
    log_today,      \* per handler: local log_today of the running _open
    baseFilename,   \* per handler: self.baseFilename
    stream,         \* per handler: self.stream, [open, date]
    fd,             \* per handler: the descriptor os.open returned is open
    nopen,          \* per handler: OS-level handles it holds open
    cur,            \* per handler: the emit in progress
    nwritten,       \* per handler: how many records it has written
    emits,          \* emit calls started so far, over all handlers
    lastErrno,      \* per handler: e.errno of the os.open of the running _open
    raised,         \* per handler: its last operation raised to the caller
    failedRot,      \* per handler: the last rotation whose open failed
    required,       \* formatter: self._required_fields
    event,          \* formatter: the LogRecord last passed to format
    message_dict,   \* formatter: format's message_dict when add_fields ran
    out             \* formatter: the log_record format serialized

hvars == <<clock, files, creations, faults, pc, ctx, rotate_at, log_today,
           baseFilename, stream, fd, nopen, cur, nwritten, emits, lastErrno,
           raised, failedRot>>
fvars == <<required, event, message_dict, out>>
vars == <<hvars, fvars>>

----------------------------------------------------------------------------
(* Bounds of the model *)

DayLen == 2
MaxClock == 4
NumProcs == 2
MaxEmits == 2
MaxFaults == 1

Procs == 1..NumProcs
\* the path of a handler that has none
NoDay == 0 - 1

----------------------------------------------------------------------------
(* The rotating handler *)

\* now.strftime('%Y-%m-%d'): the local calendar day of an instant
Date(t) == t \div DayLen

\* the local midnight that starts day d
Midnight(d) == d * DayLen

Days == 0..Date(MaxClock)

NextRotateAtLate(now) == Midnight(Date(now) + 2)
\* _next_rotate_at: midnight at the start of the day after `now`
NextRotateAt(now) == Midnight(Date(now) + 1)

LogTodayStale(now) == IF Date(now) > 0 THEN Date(now) - 1 ELSE 0
\* _open: log_today = "<filename>.<date of now>"
LogToday(now) == Date(now)

ShouldRotateNever(now, deadline) == FALSE
\* emit: time.time() > self._rotate_at
ShouldRotate(now, deadline) == now > deadline

\* os.open(log_today, O_CREAT | O_EXCL, 0644): the errno it ends with
OsOpenExcl(f, fault) ==
    IF fault THEN "EACCES" ELSE IF f.exists THEN "EEXIST" ELSE "OK"

PropagatesNothing(errno) == FALSE
\* except OSError as e: if e.errno != errno.EEXIST: raise
Propagates(errno) == errno # "EEXIST"

TruncOpen(f) == [exists |-> TRUE, data |-> <<>>]
\* open(self.baseFilename, 'a'): creates a missing file, keeps an existing one
AppendOpen(f) == IF f.exists THEN f ELSE [exists |-> TRUE, data |-> <<>>]

\* stream.write(msg + terminator) on an O_APPEND handle
StreamWrite(f, rec) == [f EXCEPT !.data = Append(@, rec)]

\* self.stream: open or None; date is the local date that was current when
\* the _open that produced it read the clock
NoStream == [open |-> FALSE, date |-> NoDay]

CloseLeak(s, n) == n
\* FileHandler.close: a held stream is closed, self.stream = None
CloseStream(s, n) == IF s.open THEN n - 1 ELSE n

\* where an exception leaves the caller: a failed constructor yields no
\* handler, a failed emit returns to the logging framework
AfterRaise(c) == IF c = "init" THEN "dead" ELSE "idle"

\* FileHandler.emit: a missing stream is reopened before the record is written
SuperEmit(s) == IF s.open THEN "write" ELSE "open"

\* the emit in progress: t is the time.time() it read, rot whether it rotated,
\* prev the path that was open when it began, openDate the local date of the
\* now() its _open read, re whether it called _open, afterFail whether the emit
\* before it failed inside a rotation
NoCur == [t |-> 0, rot |-> FALSE, prev |-> NoDay, openDate |-> NoDay,
          re |-> FALSE, afterFail |-> FALSE]
\* the last rotation whose open failed: prev is the path that was open before
\* it, t the time of the write that triggered it, fresh whether no emit has
\* been called since
NoFail == [prev |-> NoDay, fresh |-> FALSE, t |-> 0]

\* a read of the clock: any instant not before the last one read
Now == clock..MaxClock

HInit ==
    /\ clock = 0
    /\ files = [d \in Days |-> [exists |-> FALSE, data |-> <<>>]]
    /\ creations = [d \in Days |-> 0]
    /\ faults = 0
    /\ pc = [p \in Procs |-> "new"]
    /\ ctx = [p \in Procs |-> "none"]
    /\ rotate_at = [p \in Procs |-> 0]
    /\ log_today = [p \in Procs |-> NoDay]
    /\ baseFilename = [p \in Procs |-> NoDay]
    /\ stream = [p \in Procs |-> NoStream]
    /\ fd = [p \in Procs |-> FALSE]
    /\ nopen = [p \in Procs |-> 0]
    /\ cur = [p \in Procs |-> NoCur]
    /\ nwritten = [p \in Procs |-> 0]
    /\ emits = 0
    /\ lastErrno = [p \in Procs |-> "none"]
    /\ raised = [p \in Procs |-> FALSE]
    /\ failedRot = [p \in Procs |-> NoFail]

\* __init__: self._rotate_at = self._next_rotate_at(), then FileHandler.__init__
\* calls self._open().  Handlers are numbered in the order they are constructed.
Construct(p) ==
    /\ pc[p] = "new"
    /\ \A q \in Procs : q < p => pc[q] # "new"
    /\ \E now \in Now :
        /\ clock' = now
        /\ rotate_at' = [rotate_at EXCEPT ![p] = NextRotateAt(now)]
    /\ ctx' = [ctx EXCEPT ![p] = "init"]
    /\ raised' = [raised EXCEPT ![p] = FALSE]
    /\ lastErrno' = [lastErrno EXCEPT ![p] = "none"]
    /\ pc' = [pc EXCEPT ![p] = "open"]
    /\ UNCHANGED <<files, creations, faults, log_today, baseFilename, stream,
                   fd, nopen, cur, nwritten, emits, failedRot>>
    /\ UNCHANGED fvars

\* an open that failed inside a rotation to a later day than the old handle's
FailNote(p, day) ==
    IF ctx[p] = "emit" /\ cur[p].rot /\ cur[p].prev # NoDay /\ day > cur[p].prev
    THEN [prev |-> cur[p].prev, fresh |-> TRUE, t |-> cur[p].t]
    ELSE failedRot[p]

\* _open, first half: log_today from now(), then the exclusive create
OpenExcl(p) ==
    /\ pc[p] = "open"
    /\ \E now \in Now, fault \in BOOLEAN :
        /\ fault => faults < MaxFaults
        /\ clock' = now
        /\ LET path == LogToday(now)
               errno == OsOpenExcl(files[path], fault)
           IN  /\ lastErrno' = [lastErrno EXCEPT ![p] = errno]
               /\ faults' = IF fault THEN faults + 1 ELSE faults
               /\ IF errno = "OK"
                  THEN /\ files' = [files EXCEPT ![path] =
                                       [exists |-> TRUE, data |-> <<>>]]
                       /\ creations' = [creations EXCEPT ![path] = @ + 1]
                       /\ fd' = [fd EXCEPT ![p] = TRUE]
                       /\ nopen' = [nopen EXCEPT ![p] = @ + 1]
                       /\ log_today' = [log_today EXCEPT ![p] = path]
                       /\ cur' = [cur EXCEPT ![p].openDate = Date(now),
                                             ![p].re = TRUE]
                       /\ pc' = [pc EXCEPT ![p] = "close_fd"]
                       /\ UNCHANGED <<ctx, raised, failedRot>>
                  ELSE IF Propagates(errno)
                  THEN /\ raised' = [raised EXCEPT ![p] = TRUE]
                       /\ failedRot' = [failedRot EXCEPT ![p] =
                                           FailNote(p, Date(now))]
                       /\ pc' = [pc EXCEPT ![p] = AfterRaise(ctx[p])]
                       /\ ctx' = [ctx EXCEPT ![p] = "none"]
                       /\ cur' = [cur EXCEPT ![p] = NoCur]
                       /\ UNCHANGED <<files, creations, fd, nopen, log_today>>
                  ELSE /\ pc' = [pc EXCEPT ![p] = "append_open"]
                       /\ log_today' = [log_today EXCEPT ![p] = path]
                       /\ cur' = [cur EXCEPT ![p].openDate = Date(now),
                                             ![p].re = TRUE]
                       /\ UNCHANGED <<files, creations, fd, nopen, ctx, raised,
                                      failedRot>>
    /\ UNCHANGED <<rotate_at, baseFilename, stream, nwritten, emits>>
    /\ UNCHANGED fvars

\* _open: os.close(fd)
CloseFd(p) ==
    /\ pc[p] = "close_fd"
    /\ fd' = [fd EXCEPT ![p] = FALSE]
    /\ nopen' = [nopen EXCEPT ![p] = @ - 1]
    /\ pc' = [pc EXCEPT ![p] = "append_open"]
    /\ UNCHANGED <<clock, files, creations, faults, ctx, rotate_at, log_today,
                   baseFilename, stream, cur, nwritten, emits, lastErrno,
                   raised, failedRot>>
    /\ UNCHANGED fvars

\* _open, second half: self.baseFilename = log_today, then FileHandler._open
\* opens it in mode 'a'; the caller stores the result in self.stream
OpenAppend(p) ==
    /\ pc[p] = "append_open"
    /\ baseFilename' = [baseFilename EXCEPT ![p] = log_today[p]]
    /\ log_today' = [log_today EXCEPT ![p] = NoDay]
    /\ lastErrno' = [lastErrno EXCEPT ![p] = "none"]
    /\ \E fault \in BOOLEAN :
        /\ fault => faults < MaxFaults
        /\ faults' = IF fault THEN faults + 1 ELSE faults
        /\ IF fault
           THEN /\ raised' = [raised EXCEPT ![p] = TRUE]
                /\ failedRot' = [failedRot EXCEPT ![p] =
                                    FailNote(p, cur[p].openDate)]
                /\ pc' = [pc EXCEPT ![p] = AfterRaise(ctx[p])]
                /\ ctx' = [ctx EXCEPT ![p] = "none"]
                /\ cur' = [cur EXCEPT ![p] = NoCur]
                /\ UNCHANGED <<files, creations, stream, nopen>>
           ELSE /\ files' = [files EXCEPT ![log_today[p]] = AppendOpen(@)]
                /\ creations' = [creations EXCEPT ![log_today[p]] =
                                    IF AppendOpen(files[log_today[p]])
                                         = files[log_today[p]]
                                    THEN @ ELSE @ + 1]
                /\ stream' = [stream EXCEPT ![p] =
                                 [open |-> TRUE, date |-> cur[p].openDate]]
                /\ nopen' = [nopen EXCEPT ![p] = @ + 1]
                /\ pc' = [pc EXCEPT ![p] =
                             IF ctx[p] = "init" THEN "idle" ELSE "write"]
                /\ ctx' = [ctx EXCEPT ![p] =
                              IF ctx[p] = "init" THEN "none" ELSE @]
                /\ cur' = [cur EXCEPT ![p] =
                              IF ctx[p] = "init" THEN NoCur ELSE @]
                /\ UNCHANGED <<raised, failedRot>>
    /\ UNCHANGED <<clock, rotate_at, fd, nwritten, emits>>
    /\ UNCHANGED fvars

\* emit, the test: time.time() > self._rotate_at; when it is false the
\* record goes straight to FileHandler.emit
EmitCheck(p) ==
    /\ pc[p] = "idle"
    /\ emits < MaxEmits
    /\ emits' = emits + 1
    /\ ctx' = [ctx EXCEPT ![p] = "emit"]
    /\ raised' = [raised EXCEPT ![p] = FALSE]
    /\ lastErrno' = [lastErrno EXCEPT ![p] = "none"]
    /\ failedRot' = [failedRot EXCEPT ![p].fresh = FALSE, ![p].t = 0]
    /\ \E now \in Now :
        /\ clock' = now
        /\ cur' = [cur EXCEPT ![p] =
                      [t |-> now, rot |-> ShouldRotate(now, rotate_at[p]),
                       prev |-> IF stream[p].open THEN baseFilename[p]
                                ELSE NoDay,
                       openDate |-> NoDay, re |-> FALSE,
                       afterFail |-> failedRot[p].fresh]]
        /\ pc' = [pc EXCEPT ![p] =
                     IF ShouldRotate(now, rotate_at[p]) THEN "rotate"
                     ELSE SuperEmit(stream[p])]
    /\ UNCHANGED <<files, creations, faults, rotate_at, log_today,
                   baseFilename, stream, fd, nopen, nwritten>>
    /\ UNCHANGED fvars

\* emit, the rotation: self._rotate_at = self._next_rotate_at(); self.close();
\* then FileHandler.emit finds no stream
Rotate(p) ==
    /\ pc[p] = "rotate"
    /\ \E now \in Now :
        /\ clock' = now
        /\ rotate_at' = [rotate_at EXCEPT ![p] = NextRotateAt(now)]
    /\ nopen' = [nopen EXCEPT ![p] = CloseStream(stream[p], @)]
    /\ stream' = [stream EXCEPT ![p] = NoStream]
    /\ pc' = [pc EXCEPT ![p] = SuperEmit(NoStream)]
    /\ UNCHANGED <<files, creations, faults, ctx, log_today, baseFilename, fd,
                   cur, nwritten, emits, lastErrno, raised, failedRot>>
    /\ UNCHANGED fvars

\* StreamHandler.emit: the formatted record is appended to the stream's file
Write(p) ==
    /\ pc[p] = "write"
    /\ files' = [files EXCEPT ![baseFilename[p]] =
                    StreamWrite(@, <<p, nwritten[p] + 1>>)]
    /\ nwritten' = [nwritten EXCEPT ![p] = @ + 1]
    /\ cur' = [cur EXCEPT ![p] = NoCur]
    /\ ctx' = [ctx EXCEPT ![p] = "none"]
    /\ pc' = [pc EXCEPT ![p] = "idle"]
    /\ UNCHANGED <<clock, creations, faults, rotate_at, log_today,
                   baseFilename, stream, fd, nopen, emits, lastErrno, raised,
                   failedRot>>
    /\ UNCHANGED fvars

----------------------------------------------------------------------------
(* The JSON formatter.  Attribute values are strings; None is NoneVal.  A    *)
(* dict that keeps insertion order (record.__dict__, message_dict, the       *)
(* OrderedDict log_record) is a sequence of <<key, value>> with distinct     *)
(* keys.                                                                     *)

NoneVal == "<None>"

\* Python truth of a value: None and the empty string are false
Truthy(v) == v \notin {NoneVal, ""}

OdHas(od, k) == \E i \in 1..Len(od) : od[i][1] = k

\* dict.get(k): the value, or None
OdGet(od, k) ==
    IF OdHas(od, k) THEN od[CHOOSE i \in 1..Len(od) : od[i][1] = k][2]
    ELSE NoneVal

\* d[k] = v: a present key keeps its place, a new key goes last
OdSet(od, k, v) ==
    IF OdHas(od, k)
    THEN [i \in 1..Len(od) |-> IF od[i][1] = k THEN <<k, v>> ELSE od[i]]
    ELSE Append(od, <<k, v>>)

RECURSIVE OdUpdate(_, _)
\* d.update(other)
OdUpdate(od, other) ==
    IF other = <<>> THEN od
    ELSE OdUpdate(OdSet(od, Head(other)[1], Head(other)[2]), Tail(other))

OdKeys(od) == [i \in 1..Len(od) |-> od[i][1]]

Range(s) == {s[i] : i \in 1..Len(s)}

RECURSIVE Join(_)
\* the string spelled by a sequence of pieces
Join(pieces) ==
    IF pieces = <<>> THEN "" ELSE Head(pieces) \o Join(Tail(pieces))

\* RESERVED_ATTRS
RESERVED_ATTRS ==
    {"args", "asctime", "created", "exc_info", "exc_text", "filename",
     "funcName", "levelname", "levelno", "lineno", "module",
     "msecs", "message", "msg", "name", "pathname", "process",
     "processName", "relativeCreated", "stack_info", "thread", "threadName"}

\* the names of the model that begin with an underscore
UnderscoreNames == {"_secret"}

\* key.startswith('_')
StartsWithUnderscore(k) == k \in UnderscoreNames

RECURSIVE ParseFrom(_, _)
\* re.findall(r'\((.+?)\)', fmt) from piece i on: the leftmost "(", then the
\* shortest non-empty text up to a ")"; the search resumes after that ")"
ParseFrom(fmt, i) ==
    IF i > Len(fmt) THEN <<>>
    ELSE IF fmt[i] # "(" THEN ParseFrom(fmt, i + 1)
    ELSE LET js == {j \in (i + 2)..Len(fmt) : fmt[j] = ")"}
         IN  IF js = {} THEN ParseFrom(fmt, i + 1)
             ELSE LET j == CHOOSE m \in js : \A n \in js : m <= n
                  IN  <<Join(SubSeq(fmt, i + 1, j - 1))>>
                          \o ParseFrom(fmt, j + 1)

\* JsonFormatter.parse
Parse(fmt) == ParseFrom(fmt, 1)

SkipFieldsRequiredOnly(req) == Range(req)
\* __init__: self._skip_fields = the required fields and RESERVED_ATTR_HASH
SkipFields(req) == Range(req) \cup RESERVED_ATTRS

RECURSIVE MergeRecordExtra(_, _, _)
\* merge_record_extra: every attribute of the record that is not reserved
\* and does not start with an underscore is set in target
MergeRecordExtra(rdict, target, reserved) ==
    IF rdict = <<>> THEN target
    ELSE LET key == Head(rdict)[1]
             value == Head(rdict)[2]
         IN  MergeRecordExtra(Tail(rdict),
                 IF key \notin reserved /\ ~StartsWithUnderscore(key)
                 THEN OdSet(target, key, value) ELSE target,
                 reserved)

RECURSIVE SetRequired(_, _, _)
\* add_fields, the loop: log_record[field] = record.__dict__.get(field)
SetRequired(log_record, rdict, req) ==
    IF req = <<>> THEN log_record
    ELSE SetRequired(OdSet(log_record, Head(req), OdGet(rdict, Head(req))),
                     rdict, Tail(req))

AddFieldsPayloadFirst(log_record, rdict, md, req) ==
    MergeRecordExtra(rdict,
                     SetRequired(OdUpdate(log_record, md), rdict, req),
                     SkipFields(req))
\* add_fields: the required fields, then the message dict over them, then
\* the record's other attributes
AddFields(log_record, rdict, md, req) ==
    MergeRecordExtra(rdict,
                     OdUpdate(SetRequired(log_record, rdict, req), md),
                     SkipFields(req))

RECURSIVE Subst(_, _)
\* msg % args: each "%s" piece takes the next argument
Subst(text, args) ==
    IF text = <<>> THEN ""
    ELSE IF Head(text) = "%s" /\ args # <<>>
    THEN Head(args) \o Subst(Tail(text), Tail(args))
    ELSE Head(text) \o Subst(Tail(text), args)

\* str(record.msg)
MsgStr(e) == IF e.isDict THEN "{...}" ELSE Join(e.text)

\* LogRecord.getMessage: str(msg), and msg % args when there are args
GetMessage(e) == IF e.args = <<>> THEN MsgStr(e) ELSE Subst(e.text, e.args)

MessageAttrAlways(e) == GetMessage(e)
\* format: record.message is None for a dict message, getMessage() otherwise
MessageAttr(e) == IF e.isDict THEN NoneVal ELSE GetMessage(e)

\* format: message_dict is record.msg itself for a dict message, {} otherwise
MessageDict(e) == IF e.isDict THEN e.dict ELSE <<>>

\* Formatter.formatTime
FormatTime(created) == "2020-03-14 " \o created

\* Formatter.formatException
FormatException(ei) == "Traceback: " \o ei

\* format: the two tests on message_dict.get('exc_info')
ExcInfoStep(md, exc_info, exc_text) ==
    LET md1 == IF Truthy(exc_info) /\ ~Truthy(OdGet(md, "exc_info"))
               THEN OdSet(md, "exc_info", FormatException(exc_info)) ELSE md
    IN  IF ~Truthy(OdGet(md1, "exc_info")) /\ Truthy(exc_text)
        THEN OdSet(md1, "exc_info", exc_text) ELSE md1

\* record.__dict__ when add_fields runs: the attributes LogRecord sets, the
\* caller's attributes over them, then message and, if required, asctime
RecordDict(e, req) ==
    LET built == << <<"name", "root">>, <<"msg", MsgStr(e)>>,
                    <<"args", Join(e.args)>>, <<"levelname", e.levelname>>,
                    <<"exc_info", e.exc_info>>, <<"exc_text", e.exc_text>>,
                    <<"created", e.created>> >>
        withMsg == OdSet(OdUpdate(built, e.extras), "message", MessageAttr(e))
    IN  IF "asctime" \in Range(req)
        THEN OdSet(withMsg, "asctime", FormatTime(e.created)) ELSE withMsg

\* format, up to process_log_record (the identity): the message_dict handed
\* to add_fields and the log_record handed to the serializer
FormatRecord(e, req) ==
    LET md == ExcInfoStep(MessageDict(e), e.exc_info, e.exc_text)
    IN  [message_dict |-> md,
         log_record |-> AddFields(<<>>, RecordDict(e, req), md, req)]

\* The format strings, messages and attributes the formatter is run on
Patterns ==
    { <<"(", "asctime", ")", " ", "(", "levelname", ")", " ",
        "(", "message", ")">>,
      <<"(", "message", ")", "(", "message", ")">>,
      <<"%", "(", "user", ")", "s", " ", "(", "exc_info", ")">>,
      <<"(", "levelname", ")", "-", "(", "request_id", ")">>,
      <<"no fields">> }

PlainMessages ==
    { [text |-> <<"hello">>, args |-> <<>>],
      [text |-> <<"hi ", "%s">>, args |-> <<"bob">>] }

Payloads ==
    { << <<"user", "alice">>, <<"action", "login">> >>,
      << <<"message", "custom">>, <<"user", "alice">> >>,
      << <<"exc_info", "">>, <<"user", "alice">> >>,
      << <<"exc_info", "mine">> >>,
      << <<"levelname", "PAYLOAD">>, <<"request_id", "p9">> >>,
      <<>> }

Extras ==
    { <<>>,
      << <<"user", "bob">> >>,
      << <<"_secret", "x">>, <<"request_id", "r1">> >>,
      << <<"request_id", "r1">>, <<"user", "bob">> >>,
      << <<"levelname", "CUSTOM">>, <<"user", "bob">> >> }

Events ==
    { [isDict |-> FALSE, text |-> m.text, args |-> m.args, dict |-> <<>>,
       exc_info |-> ei, exc_text |-> et, levelname |-> "INFO",
       created |-> "00:00:01", extras |-> x] :
         m \in PlainMessages, ei \in {NoneVal, "ValueError: boom"},
         et \in {NoneVal, "cached"}, x \in Extras }
    \cup
    { [isDict |-> TRUE, text |-> <<>>, args |-> <<>>, dict |-> d,
       exc_info |-> ei, exc_text |-> et, levelname |-> "INFO",
       created |-> "00:00:01", extras |-> x] :
         d \in Payloads, ei \in {NoneVal, "ValueError: boom"},
         et \in {NoneVal, "cached"}, x \in Extras }

NoEvent ==
    [isDict |-> FALSE, text |-> <<>>, args |-> <<>>, dict |-> <<>>,
     exc_info |-> NoneVal, exc_text |-> NoneVal, levelname |-> "NOTSET",
     created |-> "", extras |-> <<>>]

FInit ==
    /\ required = <<>>
    /\ event = NoEvent
    /\ message_dict = <<>>
    /\ out = <<>>

\* JsonFormatter.__init__ on some format string
FInitFmt ==
    /\ required \in {Parse(fmt) : fmt \in Patterns}
    /\ event = NoEvent
    /\ message_dict = <<>>
    /\ out = <<>>

\* JsonFormatter.format on some record
Format ==
    /\ \E e \in Events :
          /\ event' = e
          /\ message_dict' = FormatRecord(e, required).message_dict
          /\ out' = FormatRecord(e, required).log_record
    /\ UNCHANGED required
    /\ UNCHANGED hvars

Init == HInit /\ FInit

InitFmt == HInit /\ FInitFmt

Next ==
    \/ \E p \in Procs : Construct(p)
    \/ \E p \in Procs : OpenExcl(p)
    \/ \E p \in Procs : CloseFd(p)
    \/ \E p \in Procs : OpenAppend(p)
    \/ \E p \in Procs : EmitCheck(p)
    \/ \E p \in Procs : Rotate(p)
    \/ \E p \in Procs : Write(p)

Spec == Init /\ [][Next]_vars

NextFmt == Format

SpecFmt == InitFmt /\ [][NextFmt]_vars

----------------------------------------------------------------------------
(* Properties of the rotating handler *)

RECURSIVE SumOver(_, _)
SumOver(f, S) ==
    IF S = {} THEN 0
    ELSE LET x == CHOOSE y \in S : TRUE IN f[x] + SumOver(f, S \ {x})

\* how many times record rec occurs in the files
Occurrences(rec) ==
    SumOver([d \in Days |->
                Cardinality({i \in 1..Len(files[d].data) :
                                files[d].data[i] = rec})], Days)

IsPrefix(s, t) == Len(s) <= Len(t) /\ SubSeq(t, 1, Len(s)) = s

\* C1, the state part: one file per day however many handlers raced to create
\* it, every open handle is on that file, and every record any handler has
\* written is in the files exactly once (total written = total found)
C1_State ==
    /\ \A d \in Days : /\ creations[d] <= 1
                       /\ files[d].exists <=> creations[d] = 1
    /\ \A p \in Procs :
          (stream[p].open \/ pc[p] = "write") =>
              /\ files[baseFilename[p]].exists
              /\ \A q \in Procs :
                    stream[q].open /\ stream[p].open
                        /\ stream[q].date = stream[p].date
                    => baseFilename[q] = baseFilename[p]
    /\ \A p \in Procs : \A n \in 1..nwritten[p] : Occurrences(<<p, n>>) = 1
    /\ SumOver([d \in Days |-> Len(files[d].data)], Days)
         = SumOver(nwritten, Procs)

\* C1, the step part: no step removes a file or changes what it already holds
C1_Step ==
    \A d \in Days :
        files[d].exists =>
            files'[d].exists /\ IsPrefix(files[d].data, files'[d].data)

\* C1: racing handlers that create, open and write the same day's file leave
\* exactly one file, all append to it, none truncates or rewrites it, and the
\* file holds every record written
C1_NoWriteLost == [](C1_State) /\ [][C1_Step]_vars

\* two handlers have appended to one file that was created once
C1_Witness ==
    \E d \in Days :
        /\ creations[d] = 1
        /\ Occurrences(<<1, 1>>) = 1 /\ Occurrences(<<2, 1>>) = 1
        /\ Len(files[d].data) = 2

\* the step in which handler p runs the exclusive create
OpenExclStep(p) == pc[p] = "open" /\ pc'[p] # "open"

\* C3: EEXIST from the exclusive create is swallowed and the existing file is
\* opened for append with its content kept; any other errno is raised to the
\* caller and the path is not opened for append
C3_Step ==
    \A p \in Procs :
        /\ OpenExclStep(p) /\ lastErrno'[p] = "EEXIST" =>
              /\ pc'[p] = "append_open"
              /\ ~raised'[p]
              /\ files' = files
        /\ OpenExclStep(p) /\ lastErrno'[p] \notin {"OK", "EEXIST"} =>
              /\ raised'[p]
              /\ pc'[p] \in {"idle", "dead"}
              /\ ~stream'[p].open
              /\ files' = files
              /\ baseFilename'[p] = baseFilename[p]
        /\ pc[p] = "append_open" /\ stream'[p].open =>
              /\ baseFilename'[p] = log_today[p]
              /\ files[log_today[p]].exists
              /\ files'[log_today[p]] = files[log_today[p]]

C3_ExistsIsNotAnError ==
    /\ [](\A p \in Procs : pc[p] = "append_open"
                              => lastErrno[p] \in {"OK", "EEXIST"})
    /\ [][C3_Step]_vars

\* one handler is about to append-open a file it found existing and non-empty
\* while another has had an EACCES raised to its caller
C3_Witness ==
    \E p, q \in Procs :
        /\ pc[p] = "append_open" /\ lastErrno[p] = "EEXIST"
        /\ files[log_today[p]].data # <<>>
        /\ raised[q] /\ lastErrno[q] = "EACCES" /\ ~stream[q].open

\* C9: a handler never holds more than one open handle: none while it opens a
\* file, the create's descriptor closed before the append-open, the old
\* stream closed before the new day's file is opened
C9_OneHandle ==
    \A p \in Procs :
        /\ nopen[p] <= 1
        /\ nopen[p] = (IF fd[p] THEN 1 ELSE 0)
                        + (IF stream[p].open THEN 1 ELSE 0)
        /\ pc[p] \in {"open", "append_open"} => nopen[p] = 0
        /\ pc[p] \in {"new", "dead", "idle", "rotate", "write"} => ~fd[p]

\* a handler that rotated away from an open file holds exactly the new handle
C9_Witness ==
    \E p \in Procs :
        /\ pc[p] = "write" /\ cur[p].rot /\ cur[p].prev # NoDay
        /\ baseFilename[p] # cur[p].prev /\ nopen[p] = 1

\* the record handler p is about to append goes to path Target(p)
Target(p) == baseFilename[p]

\* C2 as stated: every record goes to the file of the date of its time, and
\* the path changes once for each midnight between the file that was open and
\* the record's date
C2_Original ==
    \A p \in Procs :
        pc[p] = "write" =>
            /\ Target(p) = Date(cur[p].t)
            /\ cur[p].prev # NoDay =>
                  (IF Target(p) # cur[p].prev THEN 1 ELSE 0)
                      = Date(cur[p].t) - cur[p].prev

\* C2 as amended: a record timed at or before the deadline goes to the open
\* file, which is the file of its date or, for a record timed exactly at
\* midnight, of the day before; a record timed after the deadline goes to the
\* file of the date current at the reopen, never earlier than its own date;
\* the path changes at most once per write, always to a later date, and it
\* does change when the record is timed after the midnight ending the open
\* file's day
C2_Amended ==
    \A p \in Procs :
        pc[p] = "write" =>
            LET t == cur[p].t
                prev == cur[p].prev
            IN  /\ ~cur[p].rot /\ prev # NoDay =>
                      /\ Target(p) = prev
                      /\ \/ Target(p) = Date(t)
                         \/ t = Midnight(Date(t)) /\ Target(p) = Date(t) - 1
                /\ cur[p].rot \/ prev = NoDay =>
                      /\ cur[p].re
                      /\ Target(p) = cur[p].openDate
                      /\ Target(p) >= Date(t)
                      /\ Target(p) <= Date(clock)
                /\ prev # NoDay =>
                      /\ Target(p) >= prev
                      /\ Target(p) # prev => cur[p].rot
                      /\ t > Midnight(prev + 1) => Target(p) > prev

\* a write that found the file of two days ago open changes path once
C2_Witness ==
    \E p \in Procs :
        /\ pc[p] = "write" /\ cur[p].rot /\ cur[p].prev # NoDay
        /\ Target(p) = cur[p].prev + 2

\* C8, the invariant on the handle: the open stream is on the file dated with
\* the date current when it was opened, and the deadline is not later than
\* the midnight following that date
C8_Handle ==
    \A p \in Procs :
        stream[p].open =>
            /\ baseFilename[p] = stream[p].date
            /\ rotate_at[p] <= Midnight(stream[p].date + 1)

\* C8 as stated: moreover a write timed after that midnight rotates and goes
\* to the file of the date of its time, not to the older file
C8_Original ==
    /\ C8_Handle
    /\ \A p \in Procs :
          pc[p] = "write" /\ cur[p].prev # NoDay
              /\ cur[p].t > Midnight(cur[p].prev + 1) =>
                  /\ cur[p].rot
                  /\ Target(p) = Date(cur[p].t)
                  /\ Target(p) # cur[p].prev

\* C8 as amended: such a write rotates and goes to the file of the date
\* current when it reopens the file, which is the date of its time or a later
\* one, and never the older file
C8_Amended ==
    /\ C8_Handle
    /\ \A p \in Procs :
          pc[p] = "write" /\ cur[p].prev # NoDay
              /\ cur[p].t > Midnight(cur[p].prev + 1) =>
                  /\ cur[p].rot
                  /\ Target(p) = cur[p].openDate
                  /\ Target(p) >= Date(cur[p].t)
                  /\ Target(p) > cur[p].prev

\* a write timed after the midnight following the open file's date, with a
\* further midnight passing before it reopens
C8_Witness ==
    \E p \in Procs :
        /\ pc[p] = "write" /\ cur[p].prev # NoDay
        /\ cur[p].t > Midnight(cur[p].prev + 1)
        /\ stream[p].open /\ Target(p) > Date(cur[p].t)

\* C10: after an open failed inside a rotation the handler has no handle and
\* its deadline is past the failed write's time; no later record goes to the
\* path that was open before; the next write reopens, for the date current
\* then, and appends there
C10_FailedRotation ==
    \A p \in Procs :
        /\ failedRot[p].fresh =>
              /\ pc[p] = "idle" /\ raised[p]
              /\ ~stream[p].open /\ nopen[p] = 0
              /\ rotate_at[p] > failedRot[p].t
        /\ failedRot[p].prev # NoDay /\ (pc[p] = "write" \/ stream[p].open) =>
              Target(p) > failedRot[p].prev
        /\ pc[p] = "write" /\ cur[p].afterFail =>
              /\ cur[p].re /\ stream[p].open
              /\ Target(p) = cur[p].openDate
              /\ Target(p) >= Date(cur[p].t)
        /\ cur[p].afterFail /\ pc[p] # "rotate" => pc[p] \in {"open",
                 "close_fd", "append_open", "write"}

\* the write after a failed rotation, not past the new deadline, is about to
\* append to the file it reopened
C10_Witness ==
    \E p \in Procs :
        /\ pc[p] = "write" /\ cur[p].afterFail /\ ~cur[p].rot
        /\ failedRot[p].prev # NoDay /\ Target(p) > failedRot[p].prev

----------------------------------------------------------------------------
(* Properties of the JSON formatter *)

Formatted == event # NoEvent

\* the names of the attributes the caller attached to the event
ExtraNames == Range(OdKeys(event.extras))

\* an attribute name the extras merge lets through
Eligible(k) ==
    k \notin Range(required) /\ k \notin RESERVED_ATTRS
        /\ ~StartsWithUnderscore(k)

\* the keys a payload key can collide with
Contested(k) == k \in Range(required) \/ k \in ExtraNames

\* C4 as stated: a payload key that is also a required field or an extra
\* attribute's name carries the payload's value in the output
C4_Original ==
    Formatted =>
        \A i \in 1..Len(message_dict) :
            LET k == message_dict[i][1]
            IN  Contested(k) =>
                    OdHas(out, k) /\ OdGet(out, k) = message_dict[i][2]

\* C4 as amended: it carries the payload's value against a required field,
\* and against an extra attribute that the merge skips; an extra attribute
\* that the merge lets through replaces the payload's value
C4_Amended ==
    Formatted =>
        \A i \in 1..Len(message_dict) :
            LET k == message_dict[i][1]
            IN  Contested(k) =>
                    /\ OdHas(out, k)
                    /\ OdGet(out, k) =
                          IF k \in ExtraNames /\ Eligible(k)
                          THEN OdGet(event.extras, k)
                          ELSE message_dict[i][2]

\* a payload that defines levelname (a required field, payload wins) logged
\* on an event whose extra attribute user also is a payload key (extra wins)
C4_Witness ==
    /\ Formatted /\ event.isDict
    /\ \E k \in Range(required) :
          OdHas(message_dict, k) /\ OdGet(out, k) = OdGet(message_dict, k)
              /\ OdGet(out, k) # OdGet(RecordDict(event, required), k)
    /\ \E k \in ExtraNames :
          Eligible(k) /\ OdHas(message_dict, k)
              /\ OdGet(out, k) = OdGet(event.extras, k)
              /\ OdGet(out, k) # OdGet(message_dict, k)

\* C5 as stated: with exception info, a payload without an exc_info key gets
\* the rendered exception, a payload with one keeps its value whatever it
\* is; the cached text is used only without exception info
C5_Stated ==
    Formatted =>
        /\ Truthy(event.exc_info) /\ ~OdHas(MessageDict(event), "exc_info")
              => OdGet(out, "exc_info") = FormatException(event.exc_info)
        /\ Truthy(event.exc_info) /\ OdHas(MessageDict(event), "exc_info")
              => OdGet(out, "exc_info")
                    = OdGet(MessageDict(event), "exc_info")
        /\ Truthy(event.exc_text) /\ OdHas(out, "exc_info")
              /\ OdGet(out, "exc_info") = event.exc_text
              => ~Truthy(event.exc_info)

RECURSIVE Dedup(_)
\* a sequence without its repeated elements, first occurrences kept
Dedup(s) ==
    IF s = <<>> THEN <<>>
    ELSE LET front == Dedup(SubSeq(s, 1, Len(s) - 1))
         IN  IF s[Len(s)] \in Range(front) THEN front
             ELSE Append(front, s[Len(s)])

\* the keys the output must have, in order: the required fields, the payload
\* keys, the attributes the merge lets through
ExpectedKeys ==
    LET req == Dedup(required)
        pay == SelectSeq(OdKeys(message_dict),
                         LAMBDA k : k \notin Range(req))
        ext == SelectSeq(OdKeys(RecordDict(event, required)),
                         LAMBDA k : Eligible(k) /\ ~OdHas(message_dict, k))
    IN  req \o pay \o ext

\* the event of the concrete scenario: "hello" at INFO, nothing attached
PlainHello ==
    /\ ~event.isDict /\ event.text = <<"hello">> /\ event.args = <<>>
    /\ event.extras = <<>> /\ event.levelname = "INFO"
    /\ ~Truthy(event.exc_info) /\ ~Truthy(event.exc_text)
    /\ required = <<"asctime", "levelname", "message">>

\* C6: an attribute is copied by the extras merge exactly when its name is
\* not required, not reserved and not underscore-prefixed; the output's keys
\* are the required fields in pattern order, each once, then the payload
\* keys, then the copied attributes; "hello" with the three-field pattern
\* gives exactly asctime, levelname, message
C6_ExtrasAndKeys ==
    Formatted =>
        LET rdict == RecordDict(event, required)
        IN  /\ OdKeys(out) = ExpectedKeys
            /\ \A i \in 1..Len(rdict) :
                  LET k == rdict[i][1]
                  IN  /\ Eligible(k) => OdGet(out, k) = rdict[i][2]
                      /\ ~Eligible(k) /\ k \notin Range(required)
                            /\ ~OdHas(message_dict, k) => ~OdHas(out, k)
            /\ \A i \in 1..Len(Dedup(required)) :
                  OdKeys(out)[i] = Dedup(required)[i]
            /\ PlainHello =>
                  /\ OdKeys(out) = <<"asctime", "levelname", "message">>
                  /\ OdGet(out, "levelname") = "INFO"
                  /\ OdGet(out, "message") = "hello"

\* "hello" has been formatted under the three-field pattern
C6_Witness ==
    /\ Formatted /\ PlainHello
    /\ OdKeys(out) = <<"asctime", "levelname", "message">>

\* C7 as stated: every pair of a dict message is in the output and a
\* required message field is null unless the dict defines it; any other
\* message leaves the payload empty (but for the exception text) and is
\* rendered into a required message field.  record.msg is the very dict
\* that format calls message_dict.
C7_Original ==
    Formatted =>
        /\ event.isDict =>
              /\ \A i \in 1..Len(message_dict) :
                    /\ OdHas(out, message_dict[i][1])
                    /\ OdGet(out, message_dict[i][1]) = message_dict[i][2]
              /\ "message" \in Range(required)
                    /\ ~OdHas(message_dict, "message")
                    => OdHas(out, "message")
                          /\ OdGet(out, "message") = NoneVal
        /\ ~event.isDict =>
              /\ Range(OdKeys(message_dict)) \subseteq {"exc_info"}
              /\ "message" \in Range(required)
                    => OdGet(out, "message") = GetMessage(event)

\* C7 as amended: every key of a dict message is in the output, with the
\* dict's value unless an attribute the extras merge lets through has the
\* same name, whose value is then the one emitted
C7_Amended ==
    Formatted =>
        /\ event.isDict =>
              /\ \A i \in 1..Len(message_dict) :
                    LET k == message_dict[i][1]
                    IN  /\ OdHas(out, k)
                        /\ OdGet(out, k) =
                              IF k \in ExtraNames /\ Eligible(k)
                              THEN OdGet(event.extras, k)
                              ELSE message_dict[i][2]
              /\ "message" \in Range(required)
                    /\ ~OdHas(message_dict, "message")
                    => OdHas(out, "message")
                          /\ OdGet(out, "message") = NoneVal
        /\ ~event.isDict =>
              /\ Range(OdKeys(message_dict)) \subseteq {"exc_info"}
              /\ "message" \in Range(required)
                    => OdGet(out, "message") = GetMessage(event)

\* a dict message formatted with message required: its keys are out, the
\* message field is null
C7_Witness ==
    /\ Formatted /\ event.isDict /\ "message" \in Range(required)
    /\ OdGet(message_dict, "user") = "alice" /\ OdGet(out, "user") = "alice"
    /\ OdGet(message_dict, "action") = "login"
    /\ OdGet(out, "action") = "login"
    /\ OdHas(out, "message") /\ OdGet(out, "message") = NoneVal

====
